---- MODULE Spec2Model ----
(***************************************************************************)
(* A model of app.js: the reactive state store, the key deriver and name   *)
(* merger, the persistence codec, the draw controller with the events     *)
(* that can be delivered while the wheel spins, and the ocr closure.       *)
(*                                                                         *)
(* Strings that the code inspects character by character (raw names and    *)
(* keys) are sequences of one-character strings.                           *)
(***************************************************************************)
EXTENDS Integers, Sequences, FiniteSets, TLC

VARIABLES
    data,          \* state.data: classKey, names, absentKeys, history, settings
    listeners,     \* state.listeners: the Set, as the array of its elements
    subLog,        \* the subscribe and unsubscribe calls of the callers other than ui
    ui,            \* ui closure: lastWinnerKey, isHydrating, isDrawing + DOM flags
    wheel,         \* wheel closure: currentNames, spinning
    localStorage,  \* localStorage, by class key
    spins,         \* draws awaiting wheel.spinTo
    reader,        \* the FileReader of handleJsonFileChange, while it reads
    ocrJob,        \* the recognition awaited by handleOcrFileChange
    asked,         \* the roster when that recognition was asked for (history)
    uuid,          \* the number of crypto.randomUUID() values handed out
    edits,         \* the number of editing events the page was given
    ocr,           \* ocr closure: callbacks, with its timers and its worker
    quota,         \* whether localStorage.setItem throws (the quota is exceeded)
    event          \* the handler that ran last, and what it was given

vars ==
    <<data, listeners, subLog, ui, wheel, localStorage, spins, reader, ocrJob, asked,
      uuid, edits, ocr, quota, event>>

(***************************************************************************)
(* Program constants                                                       *)
(***************************************************************************)
APP_VERSION == 1
DEFAULT_CLASS_KEY == "trida-1"
DefaultSpinMs == 2600
DEFAULT_SETTINGS ==
    [spinMs |-> DefaultSpinMs, reducedMotionMode |-> "auto", theme |-> "auto"]
HistoryLimit == 20
SpinMsMin == 500
SpinMsMax == 10000

(***************************************************************************)
(* Bounds of the model                                                     *)
(***************************************************************************)
MaxUuid == 2       \* crypto.randomUUID() values handed out in one behaviour
MaxOcr == 1        \* recognitions awaited at once
MaxEdits == 2      \* editing events (names, absences, settings, class, files)
MaxCalls == 3      \* direct calls of the store's mutators in SpecStore
MaxRequests == 2   \* calls of ocr.recognize in one behaviour
MaxSubscriptions == 3  \* subscribe and unsubscribe calls in one behaviour
MaxBound == 4      \* the greatest bound given to rng.index directly


(***************************************************************************)
(* Characters                                                              *)
(***************************************************************************)
Whitespace == {" ", "\t"}
\* the characters /[^a-z0-9\s-]/ keeps
KeyChars ==
    {"a", "b", "c", "d", "e", "f", "g", "h", "i", "j", "k", "l", "m",
     "n", "o", "p", "q", "r", "s", "t", "u", "v", "w", "x", "y", "z",
     "0", "1", "2", "3", "4", "5", "6", "7", "8", "9", "-"} \cup Whitespace

\* String.prototype.normalize('NFKD') of one character
Decompose(c) ==
    CASE c = "á" -> <<"a", "´">>
      [] c = "Á" -> <<"A", "´">>
      [] OTHER -> <<c>>

\* /\p{Diacritic}/u
IsDiacritic(c) == c = "´"

\* toLocaleLowerCase('cs') of one character
ToLower(c) ==
    CASE c = "A" -> "a"
      [] c = "B" -> "b"
      [] c = "C" -> "c"
      [] c = "D" -> "d"
      [] c = "Á" -> "á"
      [] OTHER -> c

\* String.prototype.normalize('NFKD')
RECURSIVE NFKD(_)
NFKD(s) ==
    IF s = <<>> THEN <<>> ELSE Decompose(Head(s)) \o NFKD(Tail(s))

\* String.prototype.toLocaleLowerCase('cs')
toLocaleLowerCase(s) == [i \in 1..Len(s) |-> ToLower(s[i])]

\* s.replace(/\s+/g, rep)
RECURSIVE ReplaceWsRuns(_, _)
ReplaceWsRuns(s, rep) ==
    IF s = <<>> THEN <<>>
    ELSE IF Head(s) \in Whitespace
         THEN IF Len(s) > 1 /\ s[2] \in Whitespace
              THEN ReplaceWsRuns(Tail(s), rep)
              ELSE <<rep>> \o ReplaceWsRuns(Tail(s), rep)
         ELSE <<Head(s)>> \o ReplaceWsRuns(Tail(s), rep)

\* s.replace(/-+/g, '-')
RECURSIVE CollapseDashes(_)
CollapseDashes(s) ==
    IF s = <<>> THEN <<>>
    ELSE IF Head(s) = "-" /\ Len(s) > 1 /\ s[2] = "-"
         THEN CollapseDashes(Tail(s))
         ELSE <<Head(s)>> \o CollapseDashes(Tail(s))

\* s.replace(/^-|-$/g, '')
TrimDash(s) ==
    LET a == IF s # <<>> /\ Head(s) = "-" THEN Tail(s) ELSE s
    IN  IF a # <<>> /\ a[Len(a)] = "-" THEN SubSeq(a, 1, Len(a) - 1) ELSE a

\* String.prototype.trim
RECURSIVE TrimLeft(_)
TrimLeft(s) ==
    IF s # <<>> /\ Head(s) \in Whitespace THEN TrimLeft(Tail(s)) ELSE s

RECURSIVE TrimRight(_)
TrimRight(s) ==
    IF s # <<>> /\ s[Len(s)] \in Whitespace
    THEN TrimRight(SubSeq(s, 1, Len(s) - 1))
    ELSE s

Trim(s) == TrimRight(TrimLeft(s))

\* String.prototype.normalize('NFC'): a base letter and its mark compose
RECURSIVE NFC(_)
NFC(s) ==
    IF s = <<>> THEN <<>>
    ELSE IF Len(s) > 1 /\ s[2] = "´" /\ Head(s) \in {"a", "A"}
         THEN <<IF Head(s) = "a" THEN "á" ELSE "Á">> \o NFC(Tail(Tail(s)))
         ELSE <<Head(s)>> \o NFC(Tail(s))

\* raw.normalize('NFC').replace(/\s+/g, ' ').trim()
Clean(raw) == Trim(ReplaceWsRuns(NFC(raw), " "))

HexDigits == <<"0", "1", "2", "3", "4", "5", "6", "7",
               "8", "9", "a", "b", "c", "d", "e", "f">>

\* Number.prototype.toString(16)
RECURSIVE ToHex(_)
ToHex(n) ==
    IF n < 16 THEN <<HexDigits[n + 1]>>
    ELSE ToHex(n \div 16) \o <<HexDigits[(n % 16) + 1]>>

\* A 32-bit word of crypto.getRandomValues is <<hi, lo>>, its two 16-bit
\* halves. buffer[0].toString(16)
RECURSIVE Pad4(_)
Pad4(s) == IF Len(s) >= 4 THEN s ELSE Pad4(<<"0">> \o s)

WordToHex(word) ==
    IF word[1] = 0 THEN ToHex(word[2]) ELSE ToHex(word[1]) \o Pad4(ToHex(word[2]))

\* utils.createKey; word is the value crypto.getRandomValues would give
createKey(raw, word) ==
    LET normalized == NFKD(raw)
        withoutMarks == SelectSeq(normalized, LAMBDA c : ~IsDiacritic(c))
        lower == toLocaleLowerCase(withoutMarks)
        dashed == ReplaceWsRuns(SelectSeq(lower, LAMBDA c : c \in KeyChars), "-")
        trimmed == TrimDash(CollapseDashes(dashed))
    IN  IF trimmed # <<>> THEN trimmed ELSE <<"i", "d", "-">> \o WordToHex(word)

(***************************************************************************)
(* Values                                                                  *)
(***************************************************************************)
NoKey == <<>>      \* a key that is null, undefined or '' (all falsy)

Range(s) == {s[i] : i \in 1..Len(s)}

Keys(names) == {names[i].key : i \in 1..Len(names)}

\* a JS object as a function from its own property names; o.f is undefined
\* when f is not in DOMAIN o
Has(o, f) == f \in DOMAIN o

\* o.f ?? dflt
OrElse(o, f, dflt) == IF Has(o, f) THEN o[f] ELSE dflt

\* { ...a, ...b }
Spread(a, b) ==
    [f \in DOMAIN a \cup DOMAIN b |-> IF f \in DOMAIN b THEN b[f] ELSE a[f]]

EmptyObject == [f \in {} |-> 0]

\* [...set]: the elements of a Set as an array
RECURSIVE SetToSeq(_)
SetToSeq(S) ==
    IF S = {} THEN <<>>
    ELSE LET x == CHOOSE y \in S : TRUE IN <<x>> \o SetToSeq(S \ {x})

\* array.slice(0, n)
Slice0(s, n) == SubSeq(s, 1, IF Len(s) < n THEN Len(s) ELSE n)

(***************************************************************************)
(* state: the store                                                        *)
(***************************************************************************)
InitialData ==
    [classKey |-> DEFAULT_CLASS_KEY, names |-> <<>>, absentKeys |-> {},
     history |-> <<>>, settings |-> DEFAULT_SETTINGS]

\* state.getPresentNames, and the same filter in updateButtons / handleDraw
getPresentNames(d) == SelectSeq(d.names, LAMBDA n : n.key \notin d.absentKeys)

\* state.setClassKey, before notify()
setClassKey(d, key) ==
    [d EXCEPT !.classKey = IF key = "" THEN DEFAULT_CLASS_KEY ELSE key]

\* state.updateFromStorage, before notify(); payload is an object, never null
updateFromStorage(d, payload) ==
    [d EXCEPT !.names = OrElse(payload, "names", <<>>),
              !.absentKeys = Range(OrElse(payload, "absentKeys", <<>>)),
              !.history = OrElse(payload, "history", <<>>),
              !.settings = Spread(DEFAULT_SETTINGS,
                                  OrElse(payload, "settings", EmptyObject))]

\* a setNames that prunes nothing
KeepAbsent(absentKeys, newNames) == absentKeys

\* the pruning of setNames
PruneAbsent(absentKeys, newNames) ==
    {key \in absentKeys : key \in Keys(newNames)}

\* state.setNames, before notify()
setNames(d, newNames) ==
    [d EXCEPT !.names = newNames,
              !.absentKeys = PruneAbsent(d.absentKeys, newNames)]

\* state.toggleAbsent, before notify()
toggleAbsent(d, key, isAbsent) ==
    [d EXCEPT !.absentKeys = IF isAbsent THEN @ \cup {key} ELSE @ \ {key}]

\* state.clearAbsent, before notify()
clearAbsent(d) == [d EXCEPT !.absentKeys = {}]

\* an addHistory that forgets to truncate
PushHistoryUncut(history, entry) == <<entry>> \o history

\* [entry, ...history].slice(0, 20)
PushHistory(history, entry) == Slice0(<<entry>> \o history, HistoryLimit)

\* state.addHistory, before notify()
addHistory(d, entry) == [d EXCEPT !.history = PushHistory(d.history, entry)]

\* state.resetHistory, before notify()
resetHistory(d) == [d EXCEPT !.history = <<>>]

\* state.setSettings, before notify()
setSettings(d, partial) == [d EXCEPT !.settings = Spread(d.settings, partial)]

(***************************************************************************)
(* storage: the persistence codec                                          *)
(***************************************************************************)
\* a payload that holds the Set itself, which JSON.stringify writes as {}
exportPayloadWithSet(classKey, d) ==
    [version |-> APP_VERSION, classKey |-> classKey, names |-> d.names,
     absentKeys |-> EmptyObject, history |-> d.history, settings |-> d.settings]

\* the object storage.save and storage.exportPayload build from a snapshot
exportPayload(classKey, d) ==
    [version |-> APP_VERSION, classKey |-> classKey, names |-> d.names,
     absentKeys |-> SetToSeq(d.absentKeys), history |-> d.history,
     settings |-> d.settings]

\* storage.migrate of a parsed object
migrate(payload) ==
    IF Has(payload, "version") /\ payload.version = APP_VERSION THEN payload
    ELSE [version |-> APP_VERSION,
          classKey |-> OrElse(payload, "classKey", DEFAULT_CLASS_KEY),
          names |-> OrElse(payload, "names", <<>>),
          absentKeys |-> OrElse(payload, "absentKeys", <<>>),
          history |-> OrElse(payload, "history", <<>>),
          settings |-> Spread(DEFAULT_SETTINGS,
                              OrElse(payload, "settings", EmptyObject))]

\* Number(v) of a setting that is no number
NaN == -1

\* !Number.isNaN(new Date(ts).getTime()) of a string
ParsesAsDate(ts) == ts \in {"2024-05-06T07:08:09.000Z", "2024-05-07T07:08:09.000Z"}

\* the sanitizing loop of importPayload over parsed.names (an array);
\* words[i] is the random word createKey would draw for item i
RECURSIVE SanitizeNames(_, _, _, _)
SanitizeNames(items, words, i, acc) ==
    IF i > Len(items) THEN acc
    ELSE LET item == items[i]
             raw == IF Has(item, "raw") THEN Clean(item.raw) ELSE <<>>
             key == createKey(raw, words[i])
         IN  IF raw = <<>> \/ key \in Keys(acc)
             THEN SanitizeNames(items, words, i + 1, acc)
             ELSE SanitizeNames(items, words, i + 1,
                                Append(acc, [raw |-> raw, key |-> key]))

\* the .map() of importPayload over parsed.history: entries without a truthy
\* id take the next crypto.randomUUID(), numbered from n + 1
RECURSIVE WithIds(_, _)
WithIds(entries, n) ==
    IF entries = <<>> THEN <<>>
    ELSE LET e == Head(entries)
             fresh == ~Has(e, "id") \/ e.id = 0
             mapped == [key |-> OrElse(e, "key", NoKey),
                        ts |-> OrElse(e, "ts", ""),
                        id |-> IF fresh THEN n + 1 ELSE e.id]
         IN  <<mapped>> \o WithIds(Tail(entries), IF fresh THEN n + 1 ELSE n)

\* the crypto.randomUUID() calls that .map() makes
FreshIds(entries) ==
    Cardinality({i \in 1..Len(entries) :
                    ~Has(entries[i], "id") \/ entries[i].id = 0})

\* the settings block of importPayload
SanitizeSettings(parsedSettings) ==
    LET settings == Spread(DEFAULT_SETTINGS, parsedSettings)
    IN  [settings EXCEPT
            !.spinMs = IF @ # NaN THEN @ ELSE DEFAULT_SETTINGS.spinMs,
            !.reducedMotionMode =
                IF @ \in {"auto", "on", "off"} THEN @
                ELSE DEFAULT_SETTINGS.reducedMotionMode,
            !.theme =
                IF @ \in {"auto", "light", "dark"} THEN @
                ELSE DEFAULT_SETTINGS.theme]

\* a parse that hands every object to migrate, whatever its version
ParseErrorAnyVersion(file) ==
    IF file.syntax = "malformed" THEN "SyntaxError"
    ELSE IF file.syntax # "object" THEN "NotAnObject"
    ELSE ""

\* storage.parse: what it throws, or "" when it returns migrate(parsed).
\* A file is [syntax |-> "malformed" | "null" | "scalar" | "object",
\* doc |-> the object]; "scalar" is a JSON number, string or true
ParseError(file) ==
    IF file.syntax = "malformed" THEN "SyntaxError"
    ELSE IF file.syntax # "object" THEN "NotAnObject"
    ELSE IF ~(Has(file.doc, "version") /\ file.doc.version = APP_VERSION)
         THEN "UnsupportedVersion"
    ELSE ""

\* an item of parsed.names that is null makes item.raw throw
NamesThrow(parsed) ==
    Has(parsed, "names") /\ \E i \in 1..Len(parsed.names) : Has(parsed.names[i], "isNull")

\* storage.importPayload: the message it throws, or ""
importError(file) ==
    IF ParseError(file) # "" THEN ParseError(file)
    ELSE IF NamesThrow(migrate(file.doc)) THEN "TypeError"
    ELSE ""

\* an importPayload that sanitizes the names and the settings only
importUnfiltered(file, words, n) ==
    LET parsed == migrate(file.doc)
    IN  [version |-> APP_VERSION,
         classKey |-> OrElse(parsed, "classKey", DEFAULT_CLASS_KEY),
         names |-> SanitizeNames(OrElse(parsed, "names", <<>>), words, 1, <<>>),
         absentKeys |-> OrElse(parsed, "absentKeys", <<>>),
         history |-> WithIds(OrElse(parsed, "history", <<>>), n),
         settings |-> SanitizeSettings(OrElse(parsed, "settings", EmptyObject))]

\* storage.importPayload when it returns; n is the number of UUIDs handed
\* out so far
importPayload(file, words, n) ==
    LET parsed == migrate(file.doc)
        sanitizedNames == SanitizeNames(OrElse(parsed, "names", <<>>), words, 1, <<>>)
        seenKeys == Keys(sanitizedNames)
        absentKeys == SelectSeq(OrElse(parsed, "absentKeys", <<>>),
                                LAMBDA key : key \in seenKeys)
        history ==
            Slice0(SelectSeq(WithIds(OrElse(parsed, "history", <<>>), n),
                             LAMBDA entry : /\ entry.key \in seenKeys
                                            /\ entry.ts # ""
                                            /\ ParsesAsDate(entry.ts)),
                   HistoryLimit)
        classKey == OrElse(parsed, "classKey", "")
    IN  [version |-> APP_VERSION,
         classKey |-> IF classKey = "" THEN DEFAULT_CLASS_KEY ELSE classKey,
         names |-> sanitizedNames,
         absentKeys |-> absentKeys,
         history |-> history,
         settings |-> SanitizeSettings(OrElse(parsed, "settings", EmptyObject))]

\* storage.load of what localStorage holds under the class key: the
\* snapshot it returns, or NoDoc for null. A stored value is NoDoc (no
\* item) or a file as above.
NoDoc == [syntax |-> "none"]

load(stored) ==
    IF stored.syntax \in {"none", "malformed", "null"} THEN NoDoc
    ELSE IF stored.syntax = "scalar"
         THEN [syntax |-> "object", doc |-> migrate(EmptyObject)]
    ELSE [syntax |-> "object", doc |-> migrate(stored.doc)]

\* null, where JSON.stringify has written it in the place of a number
Null == -2

\* JSON.parse(JSON.stringify(n)) of a number: NaN is written as null
JsonNumber(n) == IF n = NaN THEN Null ELSE n

\* JSON.parse(JSON.stringify(payload)): the arrays, the strings and the
\* finite numbers of a payload come back as they were
Json(payload) ==
    [payload EXCEPT
        !.settings = [f \in DOMAIN @ |->
                         IF f = "spinMs" THEN JsonNumber(@[f]) ELSE @[f]]]

\* storage.save: the item it writes
save(classKey, d) == [syntax |-> "object", doc |-> Json(exportPayload(classKey, d))]

\* a map.set that adds an entry whatever the keys already there
MapPush(items, item) == Append(items, item)

\* map.set(key, item) on a Map kept as the array of its values
MapSet(items, item) ==
    IF item.key \in Keys(items)
    THEN [i \in 1..Len(items) |-> IF items[i].key = item.key THEN item ELSE items[i]]
    ELSE Append(items, item)

\* new Map(existing.map((item) => [item.key, item]))
RECURSIVE NewMap(_, _)
NewMap(existing, acc) ==
    IF existing = <<>> THEN acc
    ELSE NewMap(Tail(existing), MapSet(acc, Head(existing)))

\* the loop of utils.mergeNames over rawNames
RECURSIVE MergeLoop(_, _, _, _)
MergeLoop(map, rawNames, words, i) ==
    IF i > Len(rawNames) THEN map
    ELSE LET clean == Clean(rawNames[i])
         IN  IF clean = <<>> THEN MergeLoop(map, rawNames, words, i + 1)
             ELSE MergeLoop(MapSet(map, [raw |-> clean,
                                         key |-> createKey(clean, words[i])]),
                            rawNames, words, i + 1)

\* a merge that does not look the incoming keys up among the existing ones
mergeAfter(existing, rawNames, words) ==
    existing \o MergeLoop(<<>>, rawNames, words, 1)

\* utils.mergeNames
mergeNames(existing, rawNames, words) ==
    MergeLoop(NewMap(existing, <<>>), rawNames, words, 1)

\* utils.sanitizeRawInput of a text given as its lines
sanitizeRawInput(lines) ==
    SelectSeq([i \in 1..Len(lines) |-> Clean(lines[i])], LAMBDA line : line # <<>>)

\* an index that is rounded up
rngIndexCeil(max, word) ==
    IF max <= 0 THEN 0
    ELSE (word[1] * max + ((word[2] * max) \div 65536) + 65535) \div 65536

\* rng.index: Math.floor(word / 2^32 * max), on the two halves of the word
rngIndex(max, word) ==
    IF max <= 0 THEN 0
    ELSE (word[1] * max + ((word[2] * max) \div 65536)) \div 65536

(***************************************************************************)
(* ui and wheel: the subscriber of the store                               *)
(***************************************************************************)
\* The handlers below are composed on a record w of the closures' state:
\* w.data, w.listeners, w.subLog, w.ui, w.wheel, w.ls (localStorage), w.uuid,
\* w.ocr, w.quota, w.asked.
\* w.alert is the message the handler has shown with alert(), '' for none;
\* w.thrown is whether an exception is on its way out of the handler;
\* w.calls lists the invocations of the listeners other than ui's, each with
\* the snapshot it was given.
World == [data |-> data, listeners |-> listeners, subLog |-> subLog, ui |-> ui,
          wheel |-> wheel, ls |-> localStorage, uuid |-> uuid, ocr |-> ocr,
          quota |-> quota, asked |-> asked, alert |-> "", thrown |-> FALSE,
          calls |-> <<>>]

Commit(w) ==
    /\ data' = w.data
    /\ listeners' = w.listeners
    /\ subLog' = w.subLog
    /\ ui' = w.ui
    /\ wheel' = w.wheel
    /\ localStorage' = w.ls
    /\ uuid' = w.uuid
    /\ ocr' = w.ocr
    /\ quota' = w.quota
    /\ asked' = w.asked

\* namesMap.get(key).raw: the last roster entry with that key
RawOf(names, key) ==
    LET i == CHOOSE j \in 1..Len(names) :
                 /\ names[j].key = key
                 /\ \A k \in (j + 1)..Len(names) : names[k].key # key
    IN  names[i].raw

\* ui.updateButtons
updateButtons(d) == Len(getPresentNames(d)) <= 1

\* a save without its try/catch: the error of setItem leaves it
storageSaveUncaught(w) ==
    IF w.quota THEN [w EXCEPT !.thrown = TRUE]
    ELSE [w EXCEPT !.ls[w.data.classKey] = save(w.data.classKey, w.data)]

\* storage.save(snapshot.classKey, snapshot): the item is written, or the
\* error of localStorage.setItem is caught and logged
storageSave(w) ==
    IF w.quota THEN w
    ELSE [w EXCEPT !.ls[w.data.classKey] = save(w.data.classKey, w.data)]

\* the write of ui.handleStateChange
SaveUnlessHydrating(w) == IF w.ui.isHydrating THEN w ELSE storageSave(w)

\* a handleStateChange that keeps the winner whatever the present names
WinnerNeverGone(lastWinnerKey, presentNames) == FALSE

\* the winner that handleStateChange forgets
WinnerGone(lastWinnerKey, presentNames) ==
    lastWinnerKey # NoKey /\ lastWinnerKey \notin Keys(presentNames)

\* ui.handleStateChange(snapshot, presentNames)
handleStateChange(w, presentNames) ==
    LET d == w.data
        gone == WinnerGone(w.ui.lastWinnerKey, presentNames)
        lastWinnerKey == IF gone THEN NoKey ELSE w.ui.lastWinnerKey
        shown == IF gone THEN <<>> ELSE w.ui.winnerStatus
    IN  SaveUnlessHydrating(
            [w EXCEPT
                !.ui.lastWinnerKey = lastWinnerKey,
                !.ui.winnerStatus =
                    IF lastWinnerKey # NoKey /\ lastWinnerKey \in Keys(d.names)
                    THEN RawOf(d.names, lastWinnerKey)
                    ELSE shown,
                !.ui.drawBtnDisabled = updateButtons(d)])

\* wheel.update(names)
wheelUpdate(w, names) == [w EXCEPT !.wheel.currentNames = names]

\* the listener ui.init subscribes
uiListener(w) ==
    CHOOSE after \in {wheelUpdate(handleStateChange(v, present), present) :
                      v \in {w}, present \in {getPresentNames(w.data)}} : TRUE

\* Set.prototype.add, on a Set kept as the array of its elements
SetAdd(set, x) == IF x \in Range(set) THEN set ELSE Append(set, x)

\* Set.prototype.delete
SetDelete(set, x) == SelectSeq(set, LAMBDA y : y # x)

\* listener(getSnapshot())
invoke(w, fn) ==
    IF fn = "ui" THEN uiListener(w)
    ELSE [w EXCEPT !.calls = Append(@, [fn |-> fn, snapshot |-> w.data])]

\* for (const listener of listeners) listener(getSnapshot()), from the i-th
\* (v is the value of w, computed once)
RECURSIVE notifyFrom(_, _)
notifyFrom(w, i) ==
    CHOOSE after \in {IF i > Len(v.listeners) THEN v
                      ELSE notifyFrom(invoke(v, v.listeners[i]), i + 1) :
                      v \in {w}} : TRUE

\* a notify that calls the first listener only
notifyFirst(w) == IF w.listeners = <<>> THEN w ELSE invoke(w, w.listeners[1])

\* state.notify
notify(w) == notifyFrom(w, 1)

\* state.subscribe(fn)
subscribe(w, fn) == invoke([w EXCEPT !.listeners = SetAdd(@, fn)], fn)

\* the function state.subscribe(fn) returned
unsubscribe(w, fn) == [w EXCEPT !.listeners = SetDelete(@, fn)]

\* a mutator of the store: the new data, then notify()
Mutate(w, d) == notify([w EXCEPT !.data = d])

\* ui.lockInteractions
lockInteractions(w, lock) ==
    [w EXCEPT !.ui.locked = lock,
              !.ui.ocrBtnDisabled = lock,
              !.ui.drawBtnDisabled = IF lock THEN TRUE ELSE updateButtons(w.data)]

\* ui.shouldReduceMotion
shouldReduceMotion(settings, currentReduced) ==
    IF settings.reducedMotionMode = "on" THEN TRUE
    ELSE IF settings.reducedMotionMode = "off" THEN FALSE
    ELSE currentReduced

(***************************************************************************)
(* Inputs                                                                  *)
(***************************************************************************)
\* values of crypto.getRandomValues: the least, the middle, the greatest
RandomWords == {<<0, 0>>, <<32768, 0>>, <<65535, 65535>>}

WordsFor(items) == [1..Len(items) -> RandomWords]

Now == "2024-05-06T07:08:09.000Z"

ClassKeys == {"trida-1", "trida-2"}

\* what the teacher types into namesInput, as lines
TypedTexts == { << <<"A">> >>, << <<"A">>, <<" ", " ">>, <<"B">> >>, << <<" ">> >> }

\* what the worker recognises, as lines
OcrTexts == { << <<"C">> >>, <<>> }

FileOf(size, syntax, doc) == [size |-> size, syntax |-> syntax, doc |-> doc]

\* a document of another class, with an absent key and a history entry that
\* reference no name of it, and settings outside their ranges
DocOther ==
    [version |-> APP_VERSION, classKey |-> "trida-2",
     names |-> << [raw |-> <<"C">>], [raw |-> <<"D">>, key |-> <<"d">>] >>,
     absentKeys |-> << <<"d">>, <<"x">> >>,
     history |-> << [key |-> <<"c">>, ts |-> Now, id |-> 7],
                    [key |-> <<"x">>, ts |-> Now, id |-> 8],
                    [key |-> <<"c">>, ts |-> "yesterday"] >>,
     settings |-> [spinMs |-> 5, reducedMotionMode |-> "fast"]]

\* a document of one name, with a setting that is no number
DocOne ==
    [version |-> APP_VERSION,
     names |-> << [raw |-> <<"C">>] >>,
     settings |-> [spinMs |-> NaN, theme |-> "dark"]]

GoodFiles == { FileOf("ok", "object", DocOther), FileOf("ok", "object", DocOne) }

\* files that storage.parse has to refuse, or that are refused by their size
BadFiles ==
    { FileOf("ok", "object", [DocOne EXCEPT !.version = 0]),
      FileOf("ok", "object", [f \in {"names"} |-> DocOne.names]),
      FileOf("ok", "malformed", EmptyObject),
      FileOf("ok", "scalar", EmptyObject),
      FileOf("empty", "malformed", EmptyObject),
      FileOf("huge", "object", DocOne) }

\* the files the teacher may pick for the JSON import
ImportFiles == GoodFiles \cup BadFiles

\* a document another version of the page has left in localStorage
DocOld ==
    [version |-> 0,
     names |-> << [raw |-> <<"D">>, key |-> <<"d">>] >>,
     absentKeys |-> << <<"x">> >>,
     history |-> << [key |-> <<"d">>, ts |-> Now, id |-> 9] >>,
     settings |-> [spinMs |-> 20000]]

\* what localStorage may hold under a class key when the page is opened
StoredItems == { NoDoc, [syntax |-> "object", doc |-> DocOld] }

NoFile == [size |-> "none"]

\* the record of the handler that ran last: its name, the message it showed
\* with alert(), whether it threw, the listeners it had invoked, and for a
\* draw: whether it entered Drawing, whether it left
\* it, whether it called addHistory, the index it drew and the present
\* names it drew from; for a store call, the Absence Set before it; for a
\* merge, the raw names it was given, each with the key derived for it
Ev(name) ==
    [name |-> name, alert |-> "", thrown |-> FALSE, calls |-> <<>>,
     entered |-> FALSE, resolved |-> FALSE,
     recorded |-> FALSE, index |-> 0, present |-> <<>>, absentBefore |-> {},
     input |-> <<>>]

(***************************************************************************)
(* Initial state: the closures as constructed, before ui.init()            *)
(***************************************************************************)
InitialUi ==
    [booted |-> FALSE, lastWinnerKey |-> NoKey, winnerStatus |-> <<>>,
     isHydrating |-> TRUE, isDrawing |-> FALSE, locked |-> FALSE,
     drawBtnDisabled |-> FALSE, ocrBtnDisabled |-> FALSE,
     currentReduced |-> FALSE]

InitialWheel == [currentNames |-> <<>>, spinning |-> FALSE]

\* ocr: no request yet. callbacks holds the identifiers of the Map's
\* entries, timers those whose setTimeout is pending, jobs those the worker
\* has taken and not answered, inbox the worker's messages not yet
\* delivered; settled[id] lists the calls of request id's resolve and reject
InitialOcr ==
    [next |-> 0, callbacks |-> {}, timers |-> {}, jobs |-> {}, inbox |-> {},
     settled |-> <<>>]

\* the page before ui.init(), with what localStorage and the media query hold
InitWith(stores, reduced) ==
    /\ data = InitialData
    /\ listeners = <<>>
    /\ subLog = <<>>
    /\ ui \in {[InitialUi EXCEPT !.currentReduced = r] : r \in reduced}
    /\ wheel = InitialWheel
    /\ localStorage \in stores
    /\ spins = <<>>
    /\ reader = NoFile
    /\ ocrJob = 0
    /\ asked = <<>>
    /\ uuid = 0
    /\ edits = 0
    /\ ocr = InitialOcr
    /\ quota = FALSE
    /\ event = Ev("construct")

\* the events that count as edits
EditEvents ==
    {"addNames", "toggleAbsent", "jsonFileChange", "ocrFileChange",
     "spinDurationChange", "motionModeChange", "themeModeChange", "themeToggle",
     "classKeyChange", "state.setNames", "state.toggleAbsent",
     "state.clearAbsent", "state.updateFromStorage", "state.setClassKey",
     "utils.mergeNames", "state.addHistory", "state.resetHistory",
     "state.setSettings", "state.updateFromStorage(null)", "rng.index"}

CanEdit == edits < MaxEdits

\* the handler's effect on the closures, and its record
Done(w, ev) ==
    \E v \in {w} :
        /\ Commit(v)
        /\ event' = [ev EXCEPT !.alert = v.alert, !.thrown = v.thrown, !.calls = v.calls]
        /\ edits' = IF ev.name \in EditEvents THEN edits + 1 ELSE edits

Skip(ev) == Done(World, ev)

(***************************************************************************)
(* ui.init and the handlers it registers                                   *)
(***************************************************************************)
\* history.length ? history[0].key : null
FirstKey(history) == IF Len(history) > 0 THEN history[1].key ELSE NoKey

\* ui.init: subscribe (the listener runs at once), then hydrate from storage
UiInit ==
    /\ ~ui.booted
    /\ LET w0 == subscribe(World, "ui")
           stored == load(w0.ls[w0.data.classKey])
           w1 == IF stored = NoDoc THEN w0
                 ELSE Mutate([w0 EXCEPT !.ui.lastWinnerKey = FirstKey(stored.doc.history)],
                             updateFromStorage(w0.data, stored.doc))
       IN  Done([w1 EXCEPT !.ui.isHydrating = FALSE, !.ui.booted = TRUE], Ev("init"))
    /\ UNCHANGED <<spins, reader, ocrJob>>

\* ui.addNamesFromInput
AddNamesFromInput(texts) ==
    /\ CanEdit
    /\ ui.booted /\ ~ui.locked
    /\ \E text \in texts :
         LET raw == sanitizeRawInput(text)
         IN  IF raw = <<>> THEN Skip(Ev("addNames"))
             ELSE \E words \in WordsFor(raw) :
                    Done(Mutate(World, setNames(data, mergeNames(data.names, raw, words))),
                         Ev("addNames"))
    /\ UNCHANGED <<spins, reader, ocrJob>>

\* ui.handleAbsentToggle: a checkbox of the rendered roster flips
HandleAbsentToggle ==
    /\ CanEdit
    /\ ui.booted /\ ~ui.locked
    /\ \E key \in Keys(data.names) :
         Done(Mutate(World, toggleAbsent(data, key, key \notin data.absentKeys)),
              Ev("toggleAbsent"))
    /\ UNCHANGED <<spins, reader, ocrJob>>

\* the handleDraw that lost its guard
DrawNeverBlocked(u, wh) == FALSE

\* the guard of ui.handleDraw
DrawBlocked(u, wh) == u.isDrawing \/ wh.spinning

\* names[index], when there is one
At(names, index) == IF index < Len(names) THEN <<names[index + 1]>> ELSE <<>>

\* a handleDraw without try/finally, which returns at once when spinTo gave
\* no name
FinishDrawNoFinally(w, selected) ==
    IF selected = <<>> THEN w
    ELSE LET w2 == [lockInteractions(w, FALSE) EXCEPT
                       !.ui.isDrawing = FALSE,
                       !.ui.lastWinnerKey = selected[1].key,
                       !.ui.winnerStatus = selected[1].raw,
                       !.uuid = @ + 1]
         IN  Mutate(w2, addHistory(w2.data, [key |-> selected[1].key, ts |-> Now,
                                              id |-> w2.uuid]))

\* ui.handleDraw after the await: selected holds the name spinTo gave, if any
FinishDraw(w, selected) ==
    LET w1 == [lockInteractions(w, FALSE) EXCEPT !.ui.isDrawing = FALSE]
    IN  IF selected = <<>> THEN w1
        ELSE LET w2 == [w1 EXCEPT !.ui.lastWinnerKey = selected[1].key,
                                  !.ui.winnerStatus = selected[1].raw,
                                  !.uuid = @ + 1]
             IN  Mutate(w2, addHistory(w2.data, [key |-> selected[1].key, ts |-> Now,
                                                  id |-> w2.uuid]))

\* a return that leaves isDrawing as it is
DrawAbortedStuck(w) == w

\* ui.handleDraw when no name is present: isDrawing = false; return
DrawAborted(w) == [w EXCEPT !.ui.isDrawing = FALSE]

\* ui.handleDraw up to the await, with wheel.spinTo; word is what
\* crypto.getRandomValues gives rng.index
handleDraw(word, via) ==
    LET present == getPresentNames(data)
        index == rngIndex(Len(present), word)
        reduceMotion == shouldReduceMotion(data.settings, ui.currentReduced)
        w1 == lockInteractions([World EXCEPT !.ui.isDrawing = TRUE], TRUE)
        ev == [Ev(via) EXCEPT !.entered = TRUE, !.index = index, !.present = present]
        now == IF wheel.currentNames = <<>> \/ (~reduceMotion /\ wheel.spinning)
               THEN <<>>
               ELSE At(wheel.currentNames, index)
    IN  IF DrawBlocked(ui, wheel)
        THEN Skip(Ev(via)) /\ UNCHANGED spins
        ELSE IF Len(present) = 0
        THEN /\ Done(DrawAborted([World EXCEPT !.ui.isDrawing = TRUE]), Ev(via))
             /\ UNCHANGED spins
        ELSE IF wheel.currentNames = <<>> \/ reduceMotion \/ wheel.spinning
        THEN /\ Done(FinishDraw(w1, now),
                     [ev EXCEPT !.resolved = TRUE, !.recorded = now # <<>>])
             /\ UNCHANGED spins
        ELSE /\ Done([w1 EXCEPT !.wheel.spinning = TRUE], ev)
             /\ spins' = Append(spins, [index |-> index, present |-> present,
                                        armed |-> FALSE])

\* a draw enters Drawing only while an identifier is left for its entry
IdLeft == DrawBlocked(ui, wheel) \/ uuid + Len(spins) < MaxUuid

\* a click on drawBtn, which a disabled button does not deliver
DrawClick ==
    /\ ui.booted /\ ~ui.drawBtnDisabled /\ IdLeft
    /\ \E word \in RandomWords : handleDraw(word, "drawClick")
    /\ UNCHANGED <<reader, ocrJob>>

\* ui.handleResetHistory
handleResetHistory(via) ==
    /\ Done(Mutate(World, resetHistory(data)), Ev(via))
    /\ UNCHANGED spins

\* ui.handleKeyboard: Enter or z draws, r resets the history; nothing
\* happens while a form field has the focus
HandleKeyboard ==
    /\ ui.booted
    /\ \E key \in {"Enter", "z", "r", "x"}, inField \in BOOLEAN :
         IF inField \/ key = "x" THEN Skip(Ev("key")) /\ UNCHANGED spins
         ELSE IF key = "r" THEN handleResetHistory("keyReset")
         ELSE IdLeft /\ \E word \in RandomWords : handleDraw(word, "keyDraw")
    /\ UNCHANGED <<reader, ocrJob>>

\* a click on resetHistoryBtn
ResetClick ==
    /\ ui.booted
    /\ handleResetHistory("resetClick")
    /\ UNCHANGED <<reader, ocrJob>>

\* the requestAnimationFrame callback of wheel.spinTo: the listener is added
AnimationFrame ==
    /\ \E i \in 1..Len(spins) :
         /\ ~spins[i].armed
         /\ spins' = [spins EXCEPT ![i].armed = TRUE]
    /\ Skip(Ev("animationFrame"))
    /\ UNCHANGED <<reader, ocrJob>>

\* onTransitionEnd of the listening spin, then handleDraw after its await
onTransitionEnd(via) ==
    LET i == CHOOSE j \in 1..Len(spins) : spins[j].armed
        w1 == [World EXCEPT !.wheel.spinning = FALSE]
        selected == At(wheel.currentNames, spins[i].index)
    IN  /\ Done(FinishDraw(w1, selected),
                [Ev(via) EXCEPT !.resolved = TRUE, !.recorded = selected # <<>>,
                                !.index = spins[i].index,
                                !.present = spins[i].present])
        /\ spins' = [j \in 1..(Len(spins) - 1) |->
                        IF j < i THEN spins[j] ELSE spins[j + 1]]

\* the transition of the wheel ends
TransitionEnd ==
    /\ \E i \in 1..Len(spins) : spins[i].armed
    /\ onTransitionEnd("transitionEnd")
    /\ UNCHANGED <<reader, ocrJob>>

\* ui.handleStop: wheel.stopEarly dispatches transitionend
HandleStop ==
    /\ ui.booted
    /\ IF wheel.spinning /\ \E i \in 1..Len(spins) : spins[i].armed
       THEN onTransitionEnd("stop")
       ELSE Skip(Ev("stop")) /\ UNCHANGED spins
    /\ UNCHANGED <<reader, ocrJob>>

\* alert(message), by the kind of message
alert(w, message) == [w EXCEPT !.alert = message]

\* ui.handleJsonFileChange: the file is refused, or a FileReader starts
HandleJsonFileChange(files) ==
    /\ CanEdit
    /\ ui.booted /\ ~ui.locked /\ reader = NoFile
    /\ \E file \in files :
         IF file.size = "empty"
         THEN Done(alert(World, "emptyFile"), Ev("jsonFileChange")) /\ UNCHANGED reader
         ELSE IF file.size = "huge"
         THEN Done(alert(World, "hugeFile"), Ev("jsonFileChange")) /\ UNCHANGED reader
         ELSE reader' = file /\ Skip(Ev("jsonFileChange"))
    /\ UNCHANGED <<spins, ocrJob>>

\* the try block of reader.onload, when importPayload returned payload
ApplyImport(w, payload) ==
    LET w1 == [w EXCEPT !.ui.lastWinnerKey = FirstKey(payload.history),
                        !.ui.isHydrating = TRUE]
        w2 == Mutate(w1, setClassKey(w1.data, payload.classKey))
        w3 == Mutate(w2, updateFromStorage(w2.data, payload))
    IN  alert([w3 EXCEPT !.ui.isHydrating = FALSE], "importOk")

\* reader.onload of ui.handleJsonFileChange
ReaderLoad ==
    /\ reader # NoFile
    /\ IF importError(reader) # ""
       THEN Done(alert(World, importError(reader)), Ev("importRejected"))
       ELSE LET parsed == migrate(reader.doc)
                fresh == FreshIds(OrElse(parsed, "history", <<>>))
            IN  /\ uuid + Len(spins) + fresh <= MaxUuid
                /\ \E words \in WordsFor(OrElse(parsed, "names", <<>>)) :
                     Done([ApplyImport(World, importPayload(reader, words, uuid))
                              EXCEPT !.uuid = @ + fresh],
                          Ev("imported"))
    /\ reader' = NoFile
    /\ UNCHANGED <<spins, ocrJob>>

\* reader.onerror of ui.handleJsonFileChange
ReaderError ==
    /\ reader # NoFile
    /\ Done(alert(World, "readError"), Ev("readError"))
    /\ reader' = NoFile
    /\ UNCHANGED <<spins, ocrJob>>

\* ui.handleOcrFileChange up to the await of ocr.recognize
HandleOcrFileChange ==
    /\ CanEdit
    /\ ui.booted /\ ~ui.locked /\ ~ui.ocrBtnDisabled /\ ocrJob < MaxOcr
    /\ ocrJob' = ocrJob + 1
    /\ Done([World EXCEPT !.ui.ocrBtnDisabled = TRUE, !.asked = data.names],
            Ev("ocrFileChange"))
    /\ UNCHANGED <<spins, reader>>

\* resetLoadingState of ui.handleOcrFileChange; the recognition is no
\* longer awaited
resetLoadingState(w) == [w EXCEPT !.ui.ocrBtnDisabled = FALSE, !.asked = <<>>]

\* the record of a recognition that resolved: the roster when it was asked
\* for, and the names recognised
OcrEv(raw) == [Ev("ocrResolved") EXCEPT !.input = [asked |-> asked, raw |-> raw]]

\* a handler that merges the recognised text into the roster it saw when it
\* asked for the recognition
OcrResolvedStale(texts) ==
    /\ ocrJob > 0
    /\ \E text \in texts :
         LET raw == sanitizeRawInput(text)
         IN  IF raw = <<>>
             THEN Done(resetLoadingState(alert(World, "ocrNoText")), OcrEv(raw))
             ELSE \E words \in WordsFor(raw) :
                    Done(resetLoadingState(
                            Mutate(World, setNames(data, mergeNames(asked, raw, words)))),
                         OcrEv(raw))
    /\ ocrJob' = ocrJob - 1
    /\ UNCHANGED <<spins, reader>>

\* ui.handleOcrFileChange after the await: the recognised text is merged
OcrResolved(texts) ==
    /\ ocrJob > 0
    /\ \E text \in texts :
         LET raw == sanitizeRawInput(text)
         IN  IF raw = <<>>
             THEN Done(resetLoadingState(alert(World, "ocrNoText")), OcrEv(raw))
             ELSE \E words \in WordsFor(raw) :
                    Done(resetLoadingState(
                            Mutate(World, setNames(data, mergeNames(data.names, raw, words)))),
                         OcrEv(raw))
    /\ ocrJob' = ocrJob - 1
    /\ UNCHANGED <<spins, reader>>

\* ui.handleOcrFileChange when ocr.recognize rejects or the image fails
OcrRejected ==
    /\ ocrJob > 0
    /\ Done(resetLoadingState(alert(World, "ocrError")), Ev("ocrRejected"))
    /\ ocrJob' = ocrJob - 1
    /\ UNCHANGED <<spins, reader>>

\* Math.max(500, Math.min(10000, value))
Clamp(value) ==
    IF value < SpinMsMin THEN SpinMsMin
    ELSE IF value > SpinMsMax THEN SpinMsMax ELSE value

\* what Number.parseInt gives for the texts typed into spinDuration
SpinInputs == {NaN, 100, 20000}
\* the options of the motionMode and themeMode selects
MotionOptions == {"auto", "on", "off"}
ThemeOptions == {"auto", "light", "dark"}

\* ui.handleSpinDurationChange
HandleSpinDurationChange(values) ==
    /\ CanEdit
    /\ ui.booted /\ ~ui.locked
    /\ \E value \in values :
         IF value = NaN THEN Skip(Ev("spinDurationChange"))
         ELSE Done(Mutate(World, setSettings(data, [spinMs |-> Clamp(value)])),
                   Ev("spinDurationChange"))
    /\ UNCHANGED <<spins, reader, ocrJob>>

\* ui.handleMotionModeChange
HandleMotionModeChange ==
    /\ CanEdit
    /\ ui.booted /\ ~ui.locked
    /\ \E value \in MotionOptions :
         Done(Mutate(World, setSettings(data, [reducedMotionMode |-> value])),
              Ev("motionModeChange"))
    /\ UNCHANGED <<spins, reader, ocrJob>>

\* ui.handleThemeModeChange
HandleThemeModeChange ==
    /\ CanEdit
    /\ ui.booted /\ ~ui.locked
    /\ \E value \in ThemeOptions :
         Done(Mutate(World, setSettings(data, [theme |-> value])),
              Ev("themeModeChange"))
    /\ UNCHANGED <<spins, reader, ocrJob>>

\* ui.handleThemeToggle
HandleThemeToggle ==
    /\ CanEdit
    /\ ui.booted /\ ~ui.locked
    /\ Done(Mutate(World, setSettings(data,
               [theme |-> IF data.settings.theme = "dark" THEN "light" ELSE "dark"])),
            Ev("themeToggle"))
    /\ UNCHANGED <<spins, reader, ocrJob>>

\* a handleClassKeyChange that leaves isHydrating as it is
HandleClassKeyChangeSaving(keys) ==
    /\ CanEdit
    /\ ui.booted /\ ~ui.locked
    /\ \E typed \in keys :
         LET key == IF typed = "" THEN DEFAULT_CLASS_KEY ELSE typed
             w1 == [World EXCEPT !.ui.lastWinnerKey = NoKey,
                                 !.ui.winnerStatus = <<>>]
             w2 == Mutate(w1, setClassKey(w1.data, key))
             stored == load(w2.ls[key])
             w3 == IF stored # NoDoc
                   THEN Mutate([w2 EXCEPT !.ui.lastWinnerKey = FirstKey(stored.doc.history)],
                               updateFromStorage(w2.data, stored.doc))
                   ELSE Mutate(w2, updateFromStorage(w2.data,
                                       [names |-> <<>>, absentKeys |-> <<>>,
                                        history |-> <<>>, settings |-> DEFAULT_SETTINGS]))
         IN  Done(w3, Ev("classKeyChange"))
    /\ UNCHANGED <<spins, reader, ocrJob>>

\* ui.handleClassKeyChange; typed is the trimmed text of classKeyInput
HandleClassKeyChange(keys) ==
    /\ CanEdit
    /\ ui.booted /\ ~ui.locked
    /\ \E typed \in keys :
         LET key == IF typed = "" THEN DEFAULT_CLASS_KEY ELSE typed
             w1 == [World EXCEPT !.ui.isHydrating = TRUE,
                                 !.ui.lastWinnerKey = NoKey,
                                 !.ui.winnerStatus = <<>>]
             w2 == Mutate(w1, setClassKey(w1.data, key))
             stored == load(w2.ls[key])
             w3 == IF stored # NoDoc
                   THEN Mutate([w2 EXCEPT !.ui.lastWinnerKey = FirstKey(stored.doc.history)],
                               updateFromStorage(w2.data, stored.doc))
                   ELSE Mutate(w2, updateFromStorage(w2.data,
                                       [names |-> <<>>, absentKeys |-> <<>>,
                                        history |-> <<>>, settings |-> DEFAULT_SETTINGS]))
         IN  Done([w3 EXCEPT !.ui.isHydrating = FALSE], Ev("classKeyChange"))
    /\ UNCHANGED <<spins, reader, ocrJob>>

\* the change listener of mediaReduced
MediaReducedChange ==
    /\ ui.booted
    /\ Done([World EXCEPT !.ui.currentReduced = ~@], Ev("mediaReducedChange"))
    /\ UNCHANGED <<spins, reader, ocrJob>>

(***************************************************************************)
(* Spec: the draw controller and the events that reach the page while the  *)
(* wheel spins                                                             *)
(***************************************************************************)
Init == InitWith([ClassKeys -> {NoDoc}], {FALSE})

Next ==
    \/ UiInit
    \/ AddNamesFromInput(TypedTexts)
    \/ HandleAbsentToggle
    \/ DrawClick
    \/ HandleKeyboard
    \/ ResetClick
    \/ AnimationFrame
    \/ TransitionEnd
    \/ HandleStop
    \/ HandleJsonFileChange({FileOf("ok", "object", DocOne)})
    \/ ReaderLoad
    \/ HandleOcrFileChange
    \/ OcrResolved(OcrTexts)
    \/ OcrRejected
    \/ HandleMotionModeChange
    \/ HandleClassKeyChange({"trida-2"})

Spec == Init /\ [][Next]_vars

(***************************************************************************)
(* Claims on the draw controller                                           *)
(***************************************************************************)
DrawRequests == {"drawClick", "keyDraw"}

\* C2: a draw-request, by the button or by the keyboard, enters Drawing
\* only when at least 2 names are present (and so records no History Entry
\* otherwise).
C2_DrawNeedsTwoPresent ==
    (event.name \in DrawRequests /\ event.entered) => Len(event.present) >= 2

\* C3: a draw-request received while a draw is in the Drawing state is a
\* no-op: at most one draw is in progress, the request draws no index and
\* changes nothing (store, closures, storage, pending spin), and a draw that
\* entered Drawing appends at most one History Entry, when it leaves it.
C3_SecondRequestIsNoOp ==
    /\ [](Len(spins) <= 1)
    /\ [][ (ui.isDrawing /\ event'.name \in DrawRequests)
             => /\ ~event'.entered
                /\ UNCHANGED <<data, ui, wheel, localStorage, spins, uuid>> ]_vars
    /\ [][ (ui.isDrawing /\ event'.name \in DrawRequests \cup {"transitionEnd", "stop"})
             => /\ Len(data'.history) <= Len(data.history) + 1
                /\ (Len(data'.history) > Len(data.history)
                      => event'.resolved /\ ~ui'.isDrawing /\ spins' = <<>>) ]_vars

\* a draw-request has arrived while a draw was spinning, and was dropped
C3_Witness ==
    /\ event.name \in DrawRequests
    /\ ~event.entered
    /\ ui.isDrawing
    /\ Len(spins) = 1

\* C4: when a draw resolves, the winner is the element at the drawn index
\* of the present subset computed when the draw started, and History gains
\* exactly one entry, with that name's key, whatever was delivered while
\* the wheel was spinning.
C4_WinnerIsTheOneDrawn ==
    [][ event'.resolved
          => LET chosen == event'.present[event'.index + 1]
             IN  /\ event'.recorded
                 /\ ui'.lastWinnerKey = chosen.key
                 /\ Len(data'.history) > 0
                 /\ data'.history[1].key = chosen.key
                 /\ data'.history[1].id = uuid'
                 /\ Tail(data'.history) = Slice0(data.history, HistoryLimit - 1) ]_vars

\* C5: from the moment a draw enters Drawing until it is back in Idle, the
\* roster, the Absence Set, the settings and the class identifier do not
\* change.
C5_StoreFrozenWhileDrawing ==
    [][ ui.isDrawing
          => /\ data'.names = data.names
             /\ data'.absentKeys = data.absentKeys
             /\ data'.settings = data.settings
             /\ data'.classKey = data.classKey ]_vars

(***************************************************************************)
(* SpecStore: the store called directly, with any argument                 *)
(***************************************************************************)
NameOf(raw) == [raw |-> raw, key |-> createKey(raw, <<0, 0>>)]

\* the rosters given to setNames: up to two of three names
StoreNames == {NameOf(<<"A">>), NameOf(<<"B">>), NameOf(<<"C">>)}
StoreRosters ==
    {<<>>} \cup {<<n>> : n \in StoreNames}
           \cup {r \in StoreNames \X StoreNames : r[1] # r[2]}

\* the keys given to toggleAbsent: of the three names, and of none
StoreKeys == {<<"a">>, <<"b">>, <<"c">>, <<"x">>}

\* the payloads given to updateFromStorage: what storage.load returns for an
\* item, and what storage.importPayload returns for a file
StorePayloads ==
    {load(item).doc : item \in StoredItems \ {NoDoc}}
      \cup {importPayload(file, [i \in 1..2 |-> <<0, 0>>], 0) : file \in GoodFiles}

StoreEv(name) == [Ev(name) EXCEPT !.absentBefore = data.absentKeys]

StoreCall(d, name) ==
    /\ edits < MaxCalls /\ ui.booted
    /\ Done(Mutate(World, d), StoreEv(name))
    /\ UNCHANGED <<spins, reader, ocrJob>>

StoreSetNames == \E roster \in StoreRosters : StoreCall(setNames(data, roster), "state.setNames")

StoreToggleAbsent ==
    \E key \in StoreKeys, isAbsent \in BOOLEAN :
        StoreCall(toggleAbsent(data, key, isAbsent), "state.toggleAbsent")

StoreClearAbsent == StoreCall(clearAbsent(data), "state.clearAbsent")

StoreUpdateFromStorage ==
    \E payload \in StorePayloads :
        StoreCall(updateFromStorage(data, payload), "state.updateFromStorage")

StoreSetClassKey ==
    \E key \in ClassKeys \cup {""} : StoreCall(setClassKey(data, key), "state.setClassKey")

NextStore ==
    \/ UiInit
    \/ StoreSetNames
    \/ StoreToggleAbsent
    \/ StoreClearAbsent
    \/ StoreUpdateFromStorage
    \/ StoreSetClassKey

SpecStore == Init /\ [][NextStore]_vars

\* C1: in every reachable state of the store, every key of the Absence Set
\* is the key of an entry of the current roster.
C1_AbsentKeysAreRosterKeys == data.absentKeys \subseteq Keys(data.names)

\* C7: after any setNames call, whatever the Absence Set was before, every
\* key left in the Absence Set is a key of the new roster, and every key
\* that was absent and is in the new roster is still absent.
C7_SetNamesPrunesAbsent ==
    event.name = "state.setNames"
      => /\ data.absentKeys \subseteq Keys(data.names)
         /\ data.absentKeys \subseteq event.absentBefore
         /\ \A key \in event.absentBefore :
                key \in Keys(data.names) => key \in data.absentKeys

\* setNames has dropped an absent key whose name left the roster, and has
\* kept another
C7_Witness ==
    /\ event.name = "state.setNames"
    /\ \E key \in event.absentBefore : key \notin Keys(data.names)
    /\ data.absentKeys # {}

(***************************************************************************)
(* SpecHistory: draws on a page that opens with a saved history            *)
(***************************************************************************)
\* a history of n entries as addHistory leaves it: the latest first
SavedHistory(n) ==
    [i \in 1..n |-> [key |-> IF i % 2 = 0 THEN <<"a">> ELSE <<"b">>,
                     ts |-> Now, id |-> 100 + n - i]]

\* what storage.save has written for a class of two names and n draws
SavedClass(n) ==
    save(DEFAULT_CLASS_KEY,
         [InitialData EXCEPT !.names = <<NameOf(<<"A">>), NameOf(<<"B">>)>>,
                             !.history = SavedHistory(n)])

InitHistory ==
    InitWith({[k \in ClassKeys |-> IF k = DEFAULT_CLASS_KEY THEN SavedClass(n) ELSE NoDoc] :
                 n \in 0..HistoryLimit},
             BOOLEAN)

NextHistory ==
    \/ UiInit
    \/ DrawClick
    \/ HandleKeyboard
    \/ ResetClick
    \/ AnimationFrame
    \/ TransitionEnd
    \/ HandleStop
    \/ MediaReducedChange

SpecHistory == InitHistory /\ [][NextHistory]_vars

\* C6: History never holds more than 20 entries, and addHistory puts the
\* new entry at index 0, keeps the earlier entries in their order behind
\* it, and drops only the oldest ones.
C6_HistoryNewestFirstAtMost20 ==
    /\ [](Len(data.history) <= HistoryLimit)
    /\ [][ event'.recorded
             => LET old == data.history
                    new == data'.history
                    kept == IF Len(old) < HistoryLimit THEN Len(old) ELSE HistoryLimit - 1
                IN  /\ Len(new) = kept + 1
                    /\ new[1].id = uuid'
                    /\ \A i \in 1..Len(old) : old[i].id # new[1].id
                    /\ \A i \in 1..kept : new[i + 1] = old[i] ]_vars

\* a draw was recorded in a full history: the oldest saved entry is gone
C6_Witness ==
    /\ event.recorded
    /\ Len(data.history) = HistoryLimit
    /\ data.history[1].id = uuid
    /\ data.history[HistoryLimit].id > 100

(***************************************************************************)
(* SpecImport and SpecLoad: import files, settings, class switches         *)
(***************************************************************************)
NextImport ==
    \/ UiInit
    \/ AddNamesFromInput(TypedTexts)
    \/ DrawClick
    \/ AnimationFrame
    \/ TransitionEnd
    \/ HandleJsonFileChange(ImportFiles)
    \/ ReaderLoad
    \/ ReaderError
    \/ HandleSpinDurationChange(SpinInputs)
    \/ HandleMotionModeChange
    \/ HandleThemeModeChange
    \/ HandleThemeToggle
    \/ HandleClassKeyChange(ClassKeys \cup {""})

\* the page opened on an empty localStorage
SpecImport == Init /\ [][NextImport]_vars

\* the page opened on a localStorage that may hold another version's document
SpecLoad == InitWith([ClassKeys -> StoredItems], {FALSE}) /\ [][NextImport]_vars

\* a file of malformed JSON, or an object of another version or of none
MalformedOrUnsupported(file) ==
    \/ file.syntax = "malformed"
    \/ /\ file.syntax = "object"
       /\ ~("version" \in DOMAIN file.doc /\ file.doc.version = APP_VERSION)

\* C8: an import of malformed JSON or of an unsupported version is rejected
\* with an error shown to the user, and leaves the store and the displayed
\* winner as they were.
C8_BadImportRejected ==
    [][ (reader # NoFile /\ MalformedOrUnsupported(reader) /\ event'.name # "readError"
         /\ reader' = NoFile)
          => /\ event'.name = "importRejected"
             /\ event'.alert \in {"SyntaxError", "UnsupportedVersion"}
             /\ data' = data
             /\ ui'.winnerStatus = ui.winnerStatus
             /\ ui'.lastWinnerKey = ui.lastWinnerKey ]_vars

\* a file of another version was rejected while a roster and a winner stood
C8_Witness ==
    /\ event.name = "importRejected"
    /\ event.alert = "UnsupportedVersion"
    /\ data.names # <<>>
    /\ ui.winnerStatus # <<>>
    /\ data.history # <<>>

\* C9: loading a persisted document whose version is not the current one
\* fails the load: the store is not populated from it.
C9_OtherVersionFailsLoad ==
    [][ (event'.name \in {"init", "classKeyChange"}
         /\ localStorage[data'.classKey].syntax = "object"
         /\ localStorage[data'.classKey].doc.version # APP_VERSION)
          => /\ data'.names = <<>>
             /\ data'.absentKeys = {}
             /\ data'.history = <<>>
             /\ data'.settings = DEFAULT_SETTINGS ]_vars

\* C10: in every state reached through load, import or change-settings the
\* settings are in their ranges.
C10_SettingsInRange ==
    /\ data.settings.spinMs \in SpinMsMin..SpinMsMax
    /\ data.settings.reducedMotionMode \in {"auto", "on", "off"}
    /\ data.settings.theme \in {"auto", "light", "dark"}

(***************************************************************************)
(* SpecCodec: the JSON import given documents of every shape               *)
(***************************************************************************)
\* a document with colliding and blank names, absent keys of no name, and a
\* history longer than the limit whose every third entry names no one
DocLong ==
    [version |-> APP_VERSION,
     names |-> << [raw |-> <<"C">>], [raw |-> <<"c">>], [raw |-> <<" ">>],
                  [raw |-> <<"D">>] >>,
     absentKeys |-> << <<"c">>, <<"x">> >>,
     history |-> [i \in 1..(HistoryLimit + 16) |->
                    [key |-> CASE i % 3 = 1 -> <<"c">>
                               [] i % 3 = 2 -> <<"d">>
                               [] OTHER -> <<"x">>,
                     ts |-> IF i = 4 THEN "yesterday" ELSE Now,
                     id |-> i]]]

\* a document whose history entries lack a key, a timestamp or an id, and
\* whose names are a symbol, twice, and an accented one
DocHoles ==
    [version |-> APP_VERSION, classKey |-> "trida-2",
     names |-> << [raw |-> <<"!">>], [raw |-> <<"!">>], [raw |-> <<"Á">>],
                  [key |-> <<"b">>] >>,
     absentKeys |-> << <<"a">>, <<"b">>, <<"a">> >>,
     history |-> << [ts |-> Now, id |-> 1],
                    [key |-> <<"a">>, id |-> 2],
                    [key |-> <<"a">>, ts |-> Now],
                    [key |-> <<"b">>, ts |-> Now, id |-> 4] >>]

CodecFiles ==
    GoodFiles \cup { FileOf("ok", "object", DocLong), FileOf("ok", "object", DocHoles),
                     FileOf("ok", "object", [version |-> APP_VERSION]),
                     FileOf("ok", "object", [DocOne EXCEPT !.version = 2]) }

NextCodec ==
    \/ UiInit
    \/ HandleJsonFileChange(CodecFiles)
    \/ ReaderLoad
    \/ ReaderError

SpecCodec == Init /\ [][NextCodec]_vars

\* C11: the snapshot importPayload returns for an accepted document is
\* consistent: its absent keys are keys of its roster (and were absent in
\* the document), its history is the first 20, in their order, of the
\* document's entries that name a key of its roster and carry a timestamp
\* that parses as a date.
C11_ImportedSnapshotIsConsistent ==
    [][ event'.name = "imported"
          => LET roster == Keys(data'.names)
                 absent == IF "absentKeys" \in DOMAIN reader.doc
                           THEN reader.doc.absentKeys ELSE <<>>
                 input == IF "history" \in DOMAIN reader.doc
                          THEN reader.doc.history ELSE <<>>
                 valid == {i \in 1..Len(input) :
                             /\ "key" \in DOMAIN input[i]
                             /\ "ts" \in DOMAIN input[i]
                             /\ input[i].key \in roster
                             /\ ParsesAsDate(input[i].ts)}
                 rank(i) == Cardinality({j \in valid : j <= i})
                 new == data'.history
             IN  /\ data'.absentKeys \subseteq roster
                 /\ data'.absentKeys \subseteq Range(absent)
                 /\ Len(new) <= HistoryLimit
                 /\ Len(new) = IF Cardinality(valid) < HistoryLimit
                               THEN Cardinality(valid) ELSE HistoryLimit
                 /\ \A k \in 1..Len(new) :
                        new[k].key \in roster /\ ParsesAsDate(new[k].ts)
                 /\ \A i \in valid :
                        rank(i) <= HistoryLimit
                          => /\ new[rank(i)].key = input[i].key
                             /\ new[rank(i)].ts = input[i].ts ]_vars

\* a document was imported whose history was filtered and then cut to 20,
\* and whose absent keys were filtered
C11_Witness ==
    /\ event.name = "imported"
    /\ Len(data.history) = HistoryLimit
    /\ data.history[HistoryLimit].id > HistoryLimit
    /\ data.absentKeys = {<<"c">>}

(***************************************************************************)
(* SpecRoster: every way the page has of changing the roster               *)
(***************************************************************************)
\* texts typed into namesInput: names that differ only by case or accent,
\* blank lines, and a name made of a symbol
RosterTexts == TypedTexts \cup { <<<<"a">>, <<"!">>>>, <<<<"Á">>, <<"A">>>> }

\* what an earlier session of the page has saved under a class key
SavedRoster(key) ==
    save(key, [InitialData EXCEPT !.classKey = key,
                                  !.names = <<NameOf(<<"A">>), NameOf(<<"B">>)>>,
                                  !.absentKeys = {<<"b">>}])

InitRoster ==
    InitWith({stores \in [ClassKeys -> {NoDoc} \cup {SavedRoster(k) : k \in ClassKeys}] :
                 \A k \in ClassKeys : stores[k] \in {NoDoc, SavedRoster(k)}},
             {FALSE})

NextRoster ==
    \/ UiInit
    \/ AddNamesFromInput(RosterTexts)
    \/ HandleOcrFileChange
    \/ OcrResolved(OcrTexts)
    \/ OcrRejected
    \/ HandleJsonFileChange({FileOf("ok", "object", DocLong), FileOf("ok", "object", DocHoles)})
    \/ ReaderLoad
    \/ HandleClassKeyChange(ClassKeys)

SpecRoster == InitRoster /\ [][NextRoster]_vars

\* C12: in every state the page reaches by adding names, merging recognised
\* text, importing files, loading saved classes and switching classes, no
\* two entries of the roster have the same key.
C12_RosterKeysAreUnique ==
    \A i, j \in 1..Len(data.names) :
        data.names[i].key = data.names[j].key => i = j

\* names were added to a loaded roster, one of them under a key it held
C12_Witness ==
    /\ event.name = "addNames"
    /\ Len(data.names) = 3
    /\ data.names[1] = [raw |-> <<"a">>, key |-> <<"a">>]
    /\ data.names[2].raw = <<"B">>

(***************************************************************************)
(* SpecMerge: utils.mergeNames called with any list of raw names, and its  *)
(* result given to state.setNames                                          *)
(***************************************************************************)
\* the lists of raw names: spellings of one name, blank strings, symbols
MergeInputs ==
    { << <<"C">> >>,
      << <<"a">>, <<" ", " ">>, <<"D">>, <<"Á">> >>,
      << <<"!">> >>,
      << <<"!">>, <<"c">>, <<"!">> >>,
      << <<" ">> >> }

\* createKey reaches crypto.getRandomValues for this name
KeyIsRandom(raw) ==
    \E w1, w2 \in RandomWords : createKey(raw, w1) # createKey(raw, w2)

\* the words crypto.getRandomValues may give while rawNames is merged: one
\* for each name createKey asks one for
RECURSIVE DrawWords(_)
DrawWords(rawNames) ==
    IF rawNames = <<>> THEN {<<>>}
    ELSE {<<w>> \o rest :
            w \in (IF KeyIsRandom(Clean(Head(rawNames))) THEN RandomWords ELSE {<<0, 0>>}),
            rest \in DrawWords(Tail(rawNames))}

\* the page before ui.init, the default class saved or not
InitMerge ==
    InitWith({[k \in ClassKeys |-> IF k = DEFAULT_CLASS_KEY THEN item ELSE NoDoc] :
                 item \in {NoDoc, SavedRoster(DEFAULT_CLASS_KEY)}},
             {FALSE})

\* utils.mergeNames(state.getState().names, rawNames), then state.setNames
MergeCall(inputs) ==
    /\ edits < MaxCalls /\ ui.booted
    /\ \E rawNames \in inputs :
         \E words \in DrawWords(rawNames) :
            Done(Mutate(World, setNames(data, mergeNames(data.names, rawNames, words))),
                 [Ev("utils.mergeNames") EXCEPT
                    !.input = [i \in 1..Len(rawNames) |->
                                 [raw |-> rawNames[i],
                                  key |-> createKey(Clean(rawNames[i]), words[i])]]])
    /\ UNCHANGED <<spins, reader, ocrJob>>

NextMerge ==
    \/ UiInit
    \/ MergeCall(MergeInputs)

SpecMerge == InitMerge /\ [][NextMerge]_vars

\* C13: merge(existing, incoming) keeps the existing entries in their
\* order, appends the keys that are new in the order of their first
\* occurrence, holds no key twice, gives an entry whose key is among the
\* incoming ones the raw text of the last such incoming name, leaves the
\* others as they were, and adds nothing for a blank string.
C13_MergeKeepsOrderAndOverwrites ==
    [][ event'.name = "utils.mergeNames"
          => LET old == data.names
                 new == data'.names
                 lines == event'.input
                 inc == SelectSeq([i \in 1..Len(lines) |->
                                      [raw |-> Clean(lines[i].raw), key |-> lines[i].key]],
                                  LAMBDA n : n.raw # <<>>)
                 fresh == {i \in 1..Len(inc) :
                             /\ inc[i].key \notin Keys(old)
                             /\ \A j \in 1..(i - 1) : inc[j].key # inc[i].key}
                 rank(i) == Cardinality({j \in fresh : j <= i})
                 last(key) == CHOOSE i \in 1..Len(inc) :
                                 /\ inc[i].key = key
                                 /\ \A j \in (i + 1)..Len(inc) : inc[j].key # key
             IN  /\ Len(new) = Len(old) + Cardinality(fresh)
                 /\ \A i \in 1..Len(old) : new[i].key = old[i].key
                 /\ \A i \in fresh : new[Len(old) + rank(i)].key = inc[i].key
                 /\ \A i, j \in 1..Len(new) : new[i].key = new[j].key => i = j
                 /\ \A k \in 1..Len(new) :
                        IF new[k].key \in Keys(inc)
                        THEN new[k].raw = inc[last(new[k].key)].raw
                        ELSE new[k] = old[k] ]_vars

\* a list with two spellings of a name of the roster, a blank string and a
\* new name was merged into the roster A, B
C13_Witness ==
    /\ event.name = "utils.mergeNames"
    /\ Len(event.input) = 4
    /\ data.names = << [raw |-> <<"Á">>, key |-> <<"a">>],
                       [raw |-> <<"B">>, key |-> <<"b">>],
                       [raw |-> <<"D">>, key |-> <<"d">>] >>

\* C14: merging the same raw name a second time changes neither the length
\* nor the keys of the roster, and leaves exactly one entry with that name,
\* also when the name is made of symbols only.
C14_RemergeIsIdempotent ==
    [][ (/\ event.name = "utils.mergeNames"
         /\ event'.name = "utils.mergeNames"
         /\ Len(event.input) = 1
         /\ Len(event'.input) = 1
         /\ event'.input[1].raw = event.input[1].raw
         /\ Clean(event.input[1].raw) # <<>>)
          => LET name == Clean(event.input[1].raw)
             IN  /\ Len(data'.names) = Len(data.names)
                 /\ \A i \in 1..Len(data.names) : data'.names[i].key = data.names[i].key
                 /\ Cardinality({i \in 1..Len(data'.names) :
                                    data'.names[i].raw = name}) = 1 ]_vars

(***************************************************************************)
(* SpecFair: the page, with a browser that runs the animation frame it was *)
(* asked for and ends the transition it started                            *)
(***************************************************************************)
NextFair ==
    \/ UiInit
    \/ HandleAbsentToggle
    \/ DrawClick
    \/ HandleKeyboard
    \/ AnimationFrame
    \/ TransitionEnd
    \/ HandleStop
    \/ HandleJsonFileChange({FileOf("ok", "object", DocOne)})
    \/ ReaderLoad

SpecFair ==
    /\ InitMerge /\ [][NextFair]_vars
    /\ WF_vars(AnimationFrame) /\ WF_vars(TransitionEnd)

C16_StopResolvesTheDraw ==
    [][ (ui.isDrawing /\ event'.name = "stop")
          => /\ event'.resolved
             /\ ~ui'.isDrawing
             /\ event'.recorded
             /\ Len(data'.history) > 0
             /\ data'.history[1].key = event'.present[event'.index + 1].key ]_vars

\* C17: a draw-request made in Idle when no name is present does not enter
\* Drawing: nothing is locked, the store, the wheel and the storage are as
\* they were, no spin is pending, and the page is still in Idle, so that a
\* later draw-request is not blocked.
C17_EmptyDrawAborts ==
    [][ (/\ event'.name \in DrawRequests
         /\ ~ui.isDrawing /\ ~wheel.spinning
         /\ \A i \in 1..Len(data.names) : data.names[i].key \in data.absentKeys)
          => /\ ~event'.entered
             /\ ~ui'.isDrawing /\ ~ui'.locked /\ ~wheel'.spinning
             /\ UNCHANGED <<data, ui, wheel, localStorage, spins, uuid>> ]_vars

\* a draw was requested from the keyboard when the only name was absent
C17_Witness ==
    /\ event.name = "keyDraw"
    /\ ~event.entered
    /\ ~ui.isDrawing /\ ~wheel.spinning
    /\ data.names # <<>>
    /\ getPresentNames(data) = <<>>

(***************************************************************************)
(* Claims on persistence                                                   *)
(***************************************************************************)
\* the events of the UI boundary that change the store
BoundaryEvents ==
    {"addNames", "toggleAbsent", "spinDurationChange", "motionModeChange",
     "themeModeChange", "themeToggle", "imported", "drawClick", "keyDraw",
     "transitionEnd", "stop", "resetClick", "keyReset"}

\* C18: once a UI boundary event that changed the store has been handled,
\* the document stored under the current class identifier is the one
\* storage.save writes for the snapshot in memory.
C18_StoredDocumentIsTheSnapshot ==
    [][ (event'.name \in BoundaryEvents /\ data' # data)
          => localStorage'[data'.classKey] = save(data'.classKey, data') ]_vars

(***************************************************************************)
(* SpecOcr: the ocr closure, its worker and its timers                     *)
(***************************************************************************)
\* a call of resolve or reject of request id
settle(o, id, how) == [o EXCEPT !.settled[id] = Append(@, how)]

\* ocr.recognize; posted is whether worker.postMessage returned
recognize(o, posted) ==
    LET id == o.next + 1
        o1 == [o EXCEPT !.next = id,
                        !.settled = Append(@, <<>>),
                        !.timers = @ \cup {id},
                        !.callbacks = @ \cup {id}]
    IN  IF posted THEN [o1 EXCEPT !.jobs = @ \cup {id}]
        ELSE settle([o1 EXCEPT !.timers = @ \ {id}, !.callbacks = @ \ {id}],
                    id, "rejected")

\* a message listener that does not look the identifier up
onMessageUnguarded(o, m) ==
    settle([o EXCEPT !.timers = @ \ {m.id}, !.callbacks = @ \ {m.id}],
           m.id, IF m.status = "done" THEN "resolved" ELSE "rejected")

\* the worker's message listener
onMessage(o, m) ==
    IF m.id \notin o.callbacks THEN o
    ELSE settle([o EXCEPT !.timers = @ \ {m.id}, !.callbacks = @ \ {m.id}],
                m.id, IF m.status = "done" THEN "resolved" ELSE "rejected")

\* the worker's error listener
onError(o) ==
    [o EXCEPT !.settled = [id \in DOMAIN @ |->
                              IF id \in o.callbacks THEN Append(@[id], "rejected")
                              ELSE @[id]],
              !.timers = @ \ o.callbacks,
              !.callbacks = {}]

\* a timeout callback that does nothing
onTimeoutIgnored(o, id) == o

\* the setTimeout callback of ocr.recognize
onTimeout(o, id) ==
    IF id \in o.callbacks
    THEN settle([o EXCEPT !.callbacks = @ \ {id}], id, "rejected")
    ELSE o

\* a handler of the ocr closure returns
OcrDone(o, ev) ==
    /\ Done([World EXCEPT !.ocr = o], ev)
    /\ UNCHANGED <<spins, reader, ocrJob>>

\* ocr.recognize(imageDataUrl) is called
Recognize ==
    /\ ocr.next < MaxRequests
    /\ \E posted \in BOOLEAN :
         OcrDone(recognize(ocr, posted),
                 [Ev("ocr.recognize") EXCEPT !.index = ocr.next + 1])

\* the worker posts its answer to a job: 'done' or 'error'
WorkerAnswers ==
    \E id \in ocr.jobs, status \in {"done", "error"} :
        OcrDone([ocr EXCEPT !.jobs = @ \ {id},
                            !.inbox = @ \cup {[id |-> id, status |-> status]}],
                [Ev("worker.postMessage") EXCEPT !.index = id])

\* a message of the worker is delivered
WorkerMessage ==
    \E m \in ocr.inbox :
        OcrDone([onMessage(ocr, m) EXCEPT !.inbox = @ \ {m}],
                [Ev("ocr.message") EXCEPT !.index = m.id])

\* the worker's error event is delivered
WorkerError == OcrDone(onError(ocr), Ev("ocr.error"))

\* the timer of request id fires, 60 seconds after recognize set it
TimerFires(id) ==
    /\ id \in ocr.timers
    /\ OcrDone([onTimeout(ocr, id) EXCEPT !.timers = @ \ {id}],
                [Ev("ocr.timeout") EXCEPT !.index = id])

NextOcr ==
    \/ Recognize
    \/ WorkerAnswers
    \/ WorkerMessage
    \/ WorkerError
    \/ \E id \in 1..MaxRequests : TimerFires(id)

SpecOcr == Init /\ [][NextOcr]_vars

\* C19: a request has one pending handle, under its identifier, and it is
\* settled at most once: no request has seen more than one call of its
\* resolve and reject, a request in the map has seen none, and a message
\* for an identifier that has no entry in the map changes nothing.
C19_HandleSettledAtMostOnce ==
    /\ [](\A id \in 1..ocr.next :
             /\ Len(ocr.settled[id]) <= 1
             /\ id \in ocr.callbacks => ocr.settled[id] = <<>>)
    /\ [](ocr.callbacks \subseteq 1..ocr.next)
    /\ [][ (event'.name = "ocr.message" /\ event'.index \notin ocr.callbacks)
             => /\ ocr'.settled = ocr.settled
                /\ ocr'.callbacks = ocr.callbacks
                /\ ocr'.timers = ocr.timers ]_vars

\* the worker's answer arrived for a request that had timed out, and was
\* ignored, while the other request was resolved
C19_Witness ==
    /\ event.name = "ocr.message"
    /\ ocr.next = 2
    /\ \E id \in 1..2 :
          /\ event.index = id
          /\ ocr.settled[id] = <<"rejected">>
          /\ ocr.settled[3 - id] = <<"resolved">>

\* SpecOcrFair: a timer that was set and not cleared fires
SpecOcrFair == SpecOcr /\ \A id \in 1..MaxRequests : WF_vars(TimerFires(id))

\* C20: every request eventually settles, and is then in the map no more,
\* also when the worker never answers: its timer rejects it.
C20_RequestEventuallySettles ==
    \A id \in 1..MaxRequests :
        (id \in ocr.callbacks)
          ~> (id \notin ocr.callbacks /\ id <= ocr.next /\ Len(ocr.settled[id]) = 1)

\* a request the worker had not answered was rejected by its timer
C20_Witness ==
    /\ event.name = "ocr.timeout"
    /\ event.index \in ocr.jobs
    /\ ocr.settled[event.index] = <<"rejected">>
    /\ event.index \notin ocr.callbacks

(***************************************************************************)
(* SpecSave: the page on a localStorage whose quota may be exceeded        *)
(***************************************************************************)
\* localStorage starts, or stops, refusing setItem
QuotaChange ==
    /\ Done([World EXCEPT !.quota = ~@], Ev("quota"))
    /\ UNCHANGED <<spins, reader, ocrJob>>

NextSave ==
    \/ UiInit
    \/ AddNamesFromInput(TypedTexts)
    \/ HandleAbsentToggle
    \/ HandleSpinDurationChange(SpinInputs)
    \/ DrawClick
    \/ AnimationFrame
    \/ TransitionEnd
    \/ ResetClick
    \/ QuotaChange

SpecSave == Init /\ [][NextSave]_vars

\* C21: no handler throws; a mutation whose storage write fails is in the
\* store all the same (the absence is toggled, the names are merged, the
\* duration is set, the draw is recorded, the history is emptied) and the
\* storage is as it was; and once the storage accepts writes again, a
\* mutation stores the snapshot in memory as usual.
C21_FailedSaveKeepsTheMutation ==
    /\ [](~event.thrown)
    /\ [][ (quota' /\ event'.name \in BoundaryEvents)
             => /\ localStorage' = localStorage
                /\ event'.name = "toggleAbsent"
                     => \E key \in Keys(data.names) :
                           /\ (key \in data'.absentKeys) # (key \in data.absentKeys)
                           /\ data'.absentKeys \ {key} = data.absentKeys \ {key}
                /\ event'.name = "addNames"
                     => /\ Keys(data.names) \subseteq Keys(data'.names)
                        /\ Len(data'.names) >= Len(data.names)
                /\ (event'.name = "spinDurationChange" /\ data' # data)
                     => data'.settings.spinMs \in {SpinMsMin, SpinMsMax}
                /\ event'.recorded
                     => /\ Len(data'.history) = Len(data.history) + 1
                        /\ data'.history[1].id = uuid'
                /\ event'.name = "resetClick" => data'.history = <<>> ]_vars
    /\ [][ (~quota' /\ event'.name \in BoundaryEvents /\ data' # data)
             => localStorage'[data'.classKey] = save(data'.classKey, data') ]_vars

\* a draw was recorded while the storage refused the write: the store holds
\* the entry, the stored document an earlier roster
C21_Witness ==
    /\ quota
    /\ event.recorded
    /\ Len(data.history) = 1
    /\ localStorage[data.classKey].syntax = "object"
    /\ localStorage[data.classKey].doc.history = <<>>
    /\ localStorage[data.classKey].doc.names # data.names

(***************************************************************************)
(* SpecSubscribe: the store with other subscribers than ui, which come and *)
(* go while its mutators are called                                        *)
(***************************************************************************)
\* the functions given to state.subscribe by the other callers; they keep
\* the snapshot they are given and call nothing
Listeners == {"f", "g"}

\* state.subscribe(fn) is called
Subscribe ==
    /\ Len(subLog) < MaxSubscriptions
    /\ \E fn \in Listeners :
         Done([subscribe(World, fn) EXCEPT
                  !.subLog = Append(@, [op |-> "subscribe", fn |-> fn])],
              [Ev("state.subscribe") EXCEPT !.input = fn])
    /\ UNCHANGED <<spins, reader, ocrJob>>

\* a function that state.subscribe(fn) has returned is called
Unsubscribe ==
    /\ Len(subLog) < MaxSubscriptions
    /\ \E fn \in Listeners :
         /\ \E i \in 1..Len(subLog) : subLog[i] = [op |-> "subscribe", fn |-> fn]
         /\ Done([unsubscribe(World, fn) EXCEPT
                     !.subLog = Append(@, [op |-> "unsubscribe", fn |-> fn])],
                 [Ev("unsubscribe") EXCEPT !.input = fn])
    /\ UNCHANGED <<spins, reader, ocrJob>>

\* a mutator of the store is called
MutatorCall(d, name) ==
    /\ CanEdit
    /\ Done(Mutate(World, d), Ev(name))
    /\ UNCHANGED <<spins, reader, ocrJob>>

\* state.updateFromStorage(null): if (!payload) return
UpdateFromNothing ==
    /\ CanEdit
    /\ Skip(Ev("state.updateFromStorage(null)"))
    /\ UNCHANGED <<spins, reader, ocrJob>>

NextSubscribe ==
    \/ UiInit
    \/ Subscribe
    \/ Unsubscribe
    \/ MutatorCall(setClassKey(data, "trida-2"), "state.setClassKey")
    \/ MutatorCall(updateFromStorage(data, load(SavedRoster(data.classKey)).doc),
                   "state.updateFromStorage")
    \/ UpdateFromNothing
    \/ MutatorCall(setNames(data, <<NameOf(<<"C">>)>>), "state.setNames")
    \/ MutatorCall(toggleAbsent(data, <<"c">>, TRUE), "state.toggleAbsent")
    \/ MutatorCall(clearAbsent(data), "state.clearAbsent")
    \/ MutatorCall(addHistory(data, [key |-> <<"c">>, ts |-> Now, id |-> 1]),
                   "state.addHistory")
    \/ MutatorCall(resetHistory(data), "state.resetHistory")
    \/ MutatorCall(setSettings(data, [theme |-> "dark"]), "state.setSettings")

SpecSubscribe == Init /\ [][NextSubscribe]_vars

\* the listeners that are subscribed after the calls of log, in the order
\* they were subscribed in
RECURSIVE Subscribed(_)
Subscribed(log) ==
    IF log = <<>> THEN <<>>
    ELSE LET before == Subscribed(SubSeq(log, 1, Len(log) - 1))
             last == log[Len(log)]
         IN  IF last.op = "unsubscribe" THEN SelectSeq(before, LAMBDA fn : fn # last.fn)
             ELSE IF \E i \in 1..Len(before) : before[i] = last.fn THEN before
             ELSE Append(before, last.fn)

MutatorCalls ==
    {"state.setClassKey", "state.updateFromStorage", "state.setNames",
     "state.toggleAbsent", "state.clearAbsent", "state.addHistory",
     "state.resetHistory", "state.setSettings"}

\* a call of a mutator has invoked each subscribed listener once, in the
\* order of subscription, with the store as the call has left it
NotifiedOnce ==
    event'.calls = [i \in 1..Len(Subscribed(subLog)) |->
                       [fn |-> Subscribed(subLog)[i], snapshot |-> data']]

SaveLoadReplace ==
    /\ ui.booted
    /\ LET w1 == storageSave(World)
           stored == load(w1.ls[w1.data.classKey])
           w2 == IF stored = NoDoc THEN w1
                 ELSE Mutate(w1, updateFromStorage(w1.data, stored.doc))
       IN  Done(w2, [Ev("saveLoadReplace") EXCEPT !.input = data])
    /\ UNCHANGED <<spins, reader, ocrJob>>

NextRound ==
    \/ NextImport
    \/ HandleAbsentToggle
    \/ SaveLoadReplace

SpecRound == InitWith([ClassKeys -> StoredItems], {FALSE}) /\ [][NextRound]_vars

\* C23: a snapshot of the store that is saved under its class key, loaded
\* from it and given to replaceFromDocument leaves the store with the same
\* roster in the same order, the same Absence Set, the same History in the
\* same order and the same settings.
C23_SaveLoadReplaceIsIdentity ==
    [][ event'.name = "saveLoadReplace"
          => /\ data'.names = data.names
             /\ data'.absentKeys = data.absentKeys
             /\ data'.history = data.history
             /\ data'.settings = data.settings
             /\ data'.classKey = data.classKey
             /\ localStorage'[data.classKey] = save(data.classKey, data) ]_vars

\* a store with a roster, an absent name, a history and changed settings
\* went through storage and came back
C23_Witness ==
    /\ event.name = "saveLoadReplace"
    /\ event.input = data
    /\ Len(data.names) >= 2
    /\ data.absentKeys # {}
    /\ data.history # <<>>
    /\ data.settings # DEFAULT_SETTINGS

(***************************************************************************)
(* SpecRng: rng.index given any bound, and the draws of a class of three   *)
(***************************************************************************)
\* the least 32-bit word w with w / 2^32 * max >= k, as its two halves
LeastWord(k, max) ==
    LET q == (k * 65536) \div max
        r == (k * 65536) % max
    IN  <<q, (r * 65536 + max - 1) \div max>>

\* the word before
WordBefore(word) ==
    IF word[2] > 0 THEN <<word[1], word[2] - 1>>
    ELSE IF word[1] > 0 THEN <<word[1] - 1, 65535>>
    ELSE word

\* values of crypto.getRandomValues: the least and the greatest word, and
\* for each bound the words at which the index steps, with the ones before
IndexWords ==
    {<<0, 0>>, <<65535, 65535>>}
      \cup UNION {{LeastWord(k, max) : k \in 0..(max - 1)} : max \in 1..MaxBound}
      \cup UNION {{WordBefore(LeastWord(k, max)) : k \in 0..(max - 1)} :
                    max \in 1..MaxBound}

\* rng.index(max) is called
RngIndex ==
    /\ CanEdit
    /\ \E max \in (-1)..MaxBound, word \in IndexWords :
         Skip([Ev("rng.index") EXCEPT !.index = rngIndex(max, word),
                                      !.input = <<max, word>>])
    /\ UNCHANGED <<spins, reader, ocrJob>>

\* a click on drawBtn, with any of the words for crypto.getRandomValues
DrawClickWith(words) ==
    /\ ui.booted /\ ~ui.drawBtnDisabled /\ IdLeft
    /\ \E word \in words : handleDraw(word, "drawClick")
    /\ UNCHANGED <<reader, ocrJob>>

\* the page before ui.init, with a saved class of three names
InitRng ==
    InitWith({[k \in ClassKeys |->
                 IF k = DEFAULT_CLASS_KEY
                 THEN save(k, [InitialData EXCEPT
                                  !.names = <<NameOf(<<"A">>), NameOf(<<"B">>),
                                              NameOf(<<"C">>)>>])
                 ELSE NoDoc]},
             BOOLEAN)

NextRng ==
    \/ UiInit
    \/ RngIndex
    \/ HandleAbsentToggle
    \/ DrawClickWith(IndexWords)
    \/ AnimationFrame
    \/ TransitionEnd

SpecRng == InitRng /\ [][NextRng]_vars

\* C24: rng.index(bound) is in 0..bound-1 for a bound of 1 or more, whatever
\* the random word, and 0 for a bound of 0 or less; every value of
\* 0..bound-1 is the index of some word; a draw draws an index of the
\* present subset, and the name it records is the present name at it.
C24_IndexIsInRange ==
    /\ [](event.name = "rng.index"
            => IF event.input[1] >= 1
               THEN event.index \in 0..(event.input[1] - 1)
               ELSE event.index = 0)
    /\ [](\A max \in 1..MaxBound : \A k \in 0..(max - 1) :
            \E word \in IndexWords : rngIndex(max, word) = k)
    /\ []((event.name \in DrawRequests /\ event.entered)
            => event.index \in 0..(Len(event.present) - 1))
    /\ [][ event'.recorded
             => data'.history[1].key = event'.present[event'.index + 1].key ]_vars

\* the last of three present names was drawn and recorded
C24_Witness ==
    /\ event.recorded
    /\ Len(event.present) = 3
    /\ event.index = 2
    /\ data.history[1].key = <<"c">>

(***************************************************************************)
(* SpecSwitch: class switches between classes that are saved, saved by an  *)
(* older version, unreadable or not there                                  *)
(***************************************************************************)
\* an item that is no JSON
Unreadable == [syntax |-> "malformed"]

InitSwitch ==
    InitWith({stores \in [ClassKeys -> StoredItems \cup {Unreadable}
                                          \cup {SavedRoster(k) : k \in ClassKeys}] :
                 \A k \in ClassKeys :
                    stores[k] \in StoredItems \cup {Unreadable, SavedRoster(k)}},
             {FALSE})

NextSwitch ==
    \/ UiInit
    \/ AddNamesFromInput(TypedTexts)
    \/ HandleAbsentToggle
    \/ HandleClassKeyChange(ClassKeys \cup {""})
    \/ HandleJsonFileChange(GoodFiles)
    \/ ReaderLoad
    \/ HandleOcrFileChange
    \/ OcrResolved(OcrTexts)
    \/ OcrRejected

SpecSwitch == InitSwitch /\ [][NextSwitch]_vars

\* C25: a class switch and the initial hydration write nothing to storage;
\* after a switch the store holds the roster, the Absence Set, the History
\* and the settings of the document stored under the target class (the
\* defaults for what it lacks), or an empty class with default settings
\* when no document can be read there; and whenever an item of storage is
\* written, it is the item of the current class and holds the store's
\* snapshot under that class's identifier.
C25_SwitchKeepsClassesApart ==
    /\ [][ event'.name \in {"init", "classKeyChange"}
             => localStorage' = localStorage ]_vars
    /\ [][ event'.name = "classKeyChange"
             => LET item == localStorage[data'.classKey]
                    doc == IF item.syntax = "object" THEN item.doc ELSE EmptyObject
                    field(f, dflt) == IF f \in DOMAIN doc THEN doc[f] ELSE dflt
                    settings == field("settings", EmptyObject)
                IN  /\ data'.names = field("names", <<>>)
                    /\ data'.absentKeys =
                          {field("absentKeys", <<>>)[i] :
                              i \in 1..Len(field("absentKeys", <<>>))}
                    /\ data'.history = field("history", <<>>)
                    /\ \A f \in DOMAIN DEFAULT_SETTINGS :
                          data'.settings[f] =
                              IF f \in DOMAIN settings THEN settings[f]
                              ELSE DEFAULT_SETTINGS[f] ]_vars
    /\ [][ \A k \in ClassKeys :
               localStorage'[k] # localStorage[k]
                 => /\ k = data'.classKey
                    /\ localStorage'[k].doc.classKey = k
                    /\ localStorage'[k].doc.names = data'.names
                    /\ localStorage'[k].doc.history = data'.history ]_vars

\* the page has switched from a class it had saved with one roster to a
\* class saved with another: both documents are as they were
C25_Witness ==
    /\ event.name = "classKeyChange"
    /\ data.classKey = "trida-2"
    /\ localStorage["trida-2"] = SavedRoster("trida-2")
    /\ localStorage["trida-1"].syntax = "object"
    /\ localStorage["trida-1"].doc.version = APP_VERSION
    /\ Len(localStorage["trida-1"].doc.names) = 1
    /\ Len(data.names) = 2
    /\ data.absentKeys = {<<"b">>}

(***************************************************************************)
(* SpecPending: names added and absences toggled while a recognition is    *)
(* awaited                                                                 *)
(***************************************************************************)
\* what the worker recognises, as lines: a new name, a name of the roster
\* in another spelling, nothing
PendingTexts == OcrTexts \cup { << <<"a">>, <<"D">> >> }

NextPending ==
    \/ UiInit
    \/ AddNamesFromInput(RosterTexts)
    \/ HandleAbsentToggle
    \/ HandleOcrFileChange
    \/ OcrResolved(PendingTexts)
    \/ OcrRejected

SpecPending == InitMerge /\ [][NextPending]_vars

\* C26: when a recognition resolves, every entry the roster held just
\* before (those of the time of the request and those added since) is
\* still there under its key and at its place, the Absence Set is as it
\* was, and every recognised name is in the roster.
C26_NoUpdateLostToOcr ==
    [][ event'.name = "ocrResolved"
          => /\ Len(data'.names) >= Len(data.names)
             /\ \A i \in 1..Len(data.names) : data'.names[i].key = data.names[i].key
             /\ \A i \in 1..Len(data.names) :
                    data'.names[i].raw # data.names[i].raw
                      => \E j \in 1..Len(event'.input.raw) :
                            data'.names[i].raw = event'.input.raw[j]
             /\ data'.absentKeys = data.absentKeys
             /\ \A j \in 1..Len(event'.input.raw) :
                    \E i \in 1..Len(data'.names) :
                       data'.names[i].raw = event'.input.raw[j] ]_vars

\* a recognition has resolved after a name was added to the roster while
\* it was awaited: the roster holds that name and the recognised one
C26_Witness ==
    /\ event.name = "ocrResolved"
    /\ event.input.raw = << <<"C">> >>
    /\ \E i \in 1..Len(data.names) :
          /\ data.names[i].key \notin Keys(event.input.asked)
          /\ data.names[i].raw # <<"C">>
    /\ data.names[Len(data.names)].raw = <<"C">>

(***************************************************************************)
(* SpecExport: the snapshot exported to a file, and that file imported     *)
(***************************************************************************)
\* storage.exportPayload(state.getState()) is written to a file, and the
\* file is read back by reader.onload of ui.handleJsonFileChange
ExportImport ==
    /\ ui.booted /\ ~ui.locked /\ reader = NoFile
    /\ LET file == FileOf("ok", "object", Json(exportPayload(data.classKey, data)))
       IN  \E words \in WordsFor(data.names) :
              Done(ApplyImport(World, importPayload(file, words, uuid)),
                   [Ev("exportImport") EXCEPT !.input = words])
    /\ UNCHANGED <<spins, reader, ocrJob>>

NextExport ==
    \/ UiInit
    \/ AddNamesFromInput(RosterTexts)
    \/ HandleAbsentToggle
    \/ DrawClick
    \/ AnimationFrame
    \/ TransitionEnd
    \/ HandleSpinDurationChange(SpinInputs)
    \/ ExportImport

SpecExport == Init /\ [][NextExport]_vars

\* C27: the export of the snapshot, imported, leaves the store with the
\* same class identifier, roster (keys, raw texts, order), Absence Set,
\* History and settings, also when a key of the roster came from the random
\* fallback.
C27_ExportImportIsIdentity ==
    [][ event'.name = "exportImport"
          => /\ data'.classKey = data.classKey
             /\ data'.names = data.names
             /\ data'.absentKeys = data.absentKeys
             /\ data'.history = data.history
             /\ data'.settings = data.settings ]_vars

(***************************************************************************)
(* SpecWinner: the remembered winner across absences, imports and class    *)
(* switches, on a storage that holds classes with a history                *)
(***************************************************************************)
\* a class saved with its last winner marked absent
SavedAbsentWinner(key) ==
    save(key, [InitialData EXCEPT !.classKey = key,
                                  !.names = <<NameOf(<<"A">>), NameOf(<<"B">>)>>,
                                  !.absentKeys = {<<"b">>},
                                  !.history = SavedHistory(1)])

InitWinner ==
    InitWith({[k \in ClassKeys |-> IF k = DEFAULT_CLASS_KEY THEN first ELSE second] :
                 first \in {NoDoc, SavedClass(2)},
                 second \in {NoDoc, [syntax |-> "object", doc |-> DocOld],
                             SavedAbsentWinner("trida-2")}},
             {FALSE})

NextWinner ==
    \/ UiInit
    \/ HandleAbsentToggle
    \/ DrawClick
    \/ AnimationFrame
    \/ TransitionEnd
    \/ HandleStop
    \/ HandleJsonFileChange(GoodFiles)
    \/ ReaderLoad
    \/ HandleClassKeyChange(ClassKeys)

SpecWinner == InitWinner /\ [][NextWinner]_vars

\* C28: whenever a handler has returned, the remembered winner is empty or
\* is the key of a name of the roster that is not in the Absence Set.
C28_WinnerIsPresent ==
    \/ ui.lastWinnerKey = NoKey
    \/ \E i \in 1..Len(data.names) :
          /\ data.names[i].key = ui.lastWinnerKey
          /\ data.names[i].key \notin data.absentKeys

\* the last winner of the history was marked absent, and is remembered no
\* more
C28_Witness ==
    /\ event.name = "toggleAbsent"
    /\ data.history # <<>>
    /\ data.absentKeys = {data.history[1].key}
    /\ data.history[1].key \in Keys(data.names)
    /\ ui.lastWinnerKey = NoKey
    /\ ui.winnerStatus = <<>>

====
